---- MODULE Spec2Model ----
(***************************************************************************)
(* A model of the flaky-test doctor's MCP server (src/mcp_server.py): the  *)
(* hash-chained audit log, the JSON-RPC request loop with its tools, and   *)
(* the history classifier.                                                 *)
(*                                                                         *)
(* The specifications share the variables:                                 *)
(*   Spec         one server process answering its input lines in turn;    *)
(*   SpecRace     several processes running audit_write on one log file,   *)
(*                as the code does (no lock);                              *)
(*   SpecLocked   the same processes with audit_write inside an exclusive  *)
(*                section;                                                 *)
(*   SpecHistory  the history classifier applied to bounded histories;     *)
(*   SpecAggregate  one classify_aggregate request on bounded inputs;      *)
(*   SpecTamper   a log written by sequential calls, then changed from     *)
(*                outside and read by a verifier;                          *)
(*   SpecSuggest, SpecPermute, SpecSnippets, SpecSummarize, SpecLastHash   *)
(*                one function of the code applied to bounded inputs.      *)
(***************************************************************************)
EXTENDS Integers, Sequences, FiniteSets, TLC

VARIABLES
    audit,      \* the audit log file: [exists, lines]
    clock,      \* the wall clock time.time() reads
    nout,       \* Spec: the number of responses written to stdout so far
    nread,      \* Spec: the input lines read so far
    last,       \* Spec: the last input line, the response written for it and what handling it did
    wpc,        \* SpecRace/SpecLocked: each writer's position in audit_write
    wprev,      \* SpecRace/SpecLocked: each writer's local variable prev
    wcall,      \* SpecRace/SpecLocked: the arguments of each writer's call
    wseen,      \* SpecRace/SpecLocked: the number of log lines each writer saw when it read
    snap,       \* SpecRace/SpecLocked: per log line, the log length its writer saw when it read
    by,         \* SpecRace/SpecLocked: per log line, the writer that appended it
    lock,       \* SpecLocked: the holder of the exclusive section, 0 when free
    hist,       \* SpecHistory: the history given to the classifier
    res,        \* SpecHistory: the classifier's result for hist, NoRes before the call
    base,       \* SpecHistory: the history and result of the earlier call, NoRes when none
    tamper,     \* SpecTamper: what was done to the log file from outside, and the log before
    arg,        \* specifications of one function: the input drawn for the call
    ret         \* specifications of one function: what the call returned, NoRet before it

vars == <<audit, clock, nout, nread, last, wpc, wprev, wcall, wseen, snap, by, lock, hist, res, base,
          tamper, arg, ret>>

serverVars  == <<nout, nread, last>>
writerVars  == <<wpc, wprev, wcall, wseen, snap, by, lock>>
historyVars == <<hist, res, base>>
tamperVars  == <<tamper>>
callVars    == <<arg, ret>>

(***************************************************************************)
(* Bounds of the model.                                                    *)
(***************************************************************************)
MaxLines   == 2     \* input lines one server process reads
NWriters   == 2     \* concurrent writer processes
MaxRaceLog == 3     \* audit_write calls started in the concurrent specifications
MaxRawLen  == 3     \* length of a history over the raw token alphabet
MaxRep     == 10    \* repetitions of one token in a long history
MaxChain   == 3     \* audit_write calls made before the log is changed from outside
MaxLogFiles == 2    \* files in a log archive
MaxCap     == 2     \* largest max_files and max_snippets asked for
MaxRuns    == 3     \* runs in a list over all conclusions
MaxRunRep  == 32    \* runs in a list of successes followed by failures
MaxFileLines == 3   \* lines of a log file found by audit_write

(***************************************************************************)
(* The audit log: src/mcp_server.py lines 17-46.                           *)
(***************************************************************************)

\* "0"*64, the previous hash of the first entry.
ZeroHash == [i \in 1..64 |-> "0"]

\* A variant of the digest that does not cover the result field.
MutDigestIgnoresResult(fields) ==
    <<"sha256", [k \in (DOMAIN fields) \ {"result"} |-> fields[k]]>>

\* hashlib.sha256(json.dumps(entry, sort_keys=True)).hexdigest(): a collision-free
\* digest, represented by the fields it was computed from.
sha256(fields) == <<"sha256", fields>>

\* json.dumps(entry) + "\n": one line of the log file.
json_dumps(entry) == [kind |-> "json", obj |-> entry]

NoFile == [exists |-> FALSE, lines |-> <<>>]

\* A variant that stops at the first non-blank line.
MutFirstNonBlank(lines) ==
    LET idx == {i \in 1..Len(lines) : lines[i].kind # "blank"}
    IN  IF idx = {} THEN 0 ELSE CHOOSE i \in idx : \A j \in idx : i <= j

\* Lines 21-24: the last line of lines that is not blank after strip(), 0 when there
\* is none.
LastNonBlank(lines) ==
    LET idx == {i \in 1..Len(lines) : lines[i].kind # "blank"}
    IN  IF idx = {} THEN 0 ELSE CHOOSE i \in idx : \A j \in idx : j <= i

\* A variant of _last_hash that always answers the zero hash.
MutLastHashZero(file) == [raised |-> FALSE, value |-> ZeroHash]

\* A variant that answers the zero hash for a last line that cannot be read as an
\* entry, where json.loads raises.
MutLastHashLenient(lines, n) ==
    IF n = 0 THEN [raised |-> FALSE, value |-> ZeroHash]
    ELSE IF lines[n].kind # "json"
         THEN [raised |-> FALSE, value |-> ZeroHash]
    ELSE IF "hash" \in DOMAIN lines[n].obj
         THEN [raised |-> FALSE, value |-> lines[n].obj.hash]
    ELSE [raised |-> FALSE, value |-> ZeroHash]

\* Lines 25-28 with n the position of the last non-blank line.
LastHashAt(lines, n) ==
    IF n = 0 THEN [raised |-> FALSE, value |-> ZeroHash]
    ELSE IF lines[n].kind # "json"
         THEN [raised |-> TRUE, value |-> ZeroHash]                  \* json.loads raises
    ELSE IF "hash" \in DOMAIN lines[n].obj
         THEN [raised |-> FALSE, value |-> lines[n].obj.hash]
    ELSE [raised |-> FALSE, value |-> ZeroHash]                      \* obj.get default

\* _last_hash(path): [raised, value].
_last_hash(file) ==
    IF ~file.exists THEN [raised |-> FALSE, value |-> ZeroHash]      \* FileNotFoundError
    ELSE LastHashAt(file.lines, LastNonBlank(file.lines))

\* The dict audit_write builds before hashing (lines 34-42).
EntryFields(ts, event, payload, result, ok, t_ms, prev) ==
    [ts |-> ts, event |-> event, ok |-> ok, t_ms |-> t_ms,
     payload |-> payload, result |-> result, prev |-> prev]

\* An entry without its hash field.
StripHash(e) == [k \in (DOMAIN e) \ {"hash"} |-> e[k]]

\* A variant that leaves prev out of the digest.
MutHashWithoutPrev(f) ==
    [ts |-> f.ts, event |-> f.event, ok |-> f.ok, t_ms |-> f.t_ms,
     payload |-> f.payload, result |-> f.result, prev |-> f.prev,
     hash |-> sha256([k \in (DOMAIN f) \ {"prev"} |-> f[k]])]

\* Lines 43-44: h = sha256(dumps(entry)); entry["hash"] = h.
SealEntry(f) ==
    [ts |-> f.ts, event |-> f.event, ok |-> f.ok, t_ms |-> f.t_ms,
     payload |-> f.payload, result |-> f.result, prev |-> f.prev,
     hash |-> sha256(f)]

\* A variant that opens the file for writing ("w"), dropping what it held.
MutTruncatingWrite(file, entry) ==
    [exists |-> TRUE, lines |-> <<json_dumps(entry)>>]

\* Lines 45-46: open(AUDIT_PATH, "a") creates the file when absent and appends one line.
AppendLine(file, entry) ==
    [exists |-> TRUE, lines |-> Append(file.lines, json_dumps(entry))]

\* audit_write(event, payload, result, ok, t_ms) run without interruption; io is
\* whether open/write succeed (FALSE: OSError, e.g. disk full or no permission).
\* [file, raised]: the file afterwards, and whether the call raised.
\* Lines 34-46 once line 33 has given lh.
WriteAfter(lh, file, ts, event, payload, result, ok, t_ms, io) ==
    IF lh.raised THEN [file |-> file, raised |-> TRUE]
    ELSE IF ~io THEN [file |-> file, raised |-> TRUE]
    ELSE [file |-> AppendLine(file, SealEntry(EntryFields(ts, event, payload, result, ok, t_ms, lh.value))),
          raised |-> FALSE]

\* A variant with every failure caught and dropped.
Swallowed(w) == [file |-> w.file, raised |-> FALSE]

MutAuditWriteSwallows(file, ts, event, payload, result, ok, t_ms, io) ==
    Swallowed(WriteAfter(_last_hash(file), file, ts, event, payload, result, ok, t_ms, io))

audit_write(file, ts, event, payload, result, ok, t_ms, io) ==
    WriteAfter(_last_hash(file), file, ts, event, payload, result, ok, t_ms, io)

\* The entries of the log, in file order (every line the server writes is an entry).
Entries(file) == [i \in 1..Len(file.lines) |-> file.lines[i].obj]

\* The chain a verifier checks: first prev is the zero hash, each later prev is the
\* hash stored just before, each stored hash is the digest of the other fields.
ChainOK(file) ==
    LET e == Entries(file) IN
    /\ \A i \in 1..Len(e) : e[i].prev = (IF i = 1 THEN ZeroHash ELSE e[i-1].hash)
    /\ \A i \in 1..Len(e) : e[i].hash = sha256(StripHash(e[i]))

\* Two entries of the log carry the same prev.
DupPrev(file) ==
    LET e == Entries(file) IN
    \E i, j \in 1..Len(e) : i < j /\ e[i].prev = e[j].prev

(***************************************************************************)
(* The history classifier: src/mcp_server.py lines 136-151.  A token is a  *)
(* string, modelled as its sequence of characters.                         *)
(***************************************************************************)
Whitespace == {" ", "\t"}

\* str.lower() on one character.
LowerChar(c) ==
    CASE c = "P" -> "p" [] c = "A" -> "a" [] c = "S" -> "s" [] c = "F" -> "f"
      [] c = "I" -> "i" [] c = "L" -> "l" [] c = "K" -> "k" [] OTHER -> c

lower(s) == [i \in 1..Len(s) |-> LowerChar(s[i])]

RECURSIVE lstrip(_)
lstrip(s) == IF s # <<>> /\ Head(s) \in Whitespace THEN lstrip(Tail(s)) ELSE s

RECURSIVE rstrip(_)
rstrip(s) ==
    IF s # <<>> /\ s[Len(s)] \in Whitespace THEN rstrip(SubSeq(s, 1, Len(s) - 1)) ELSE s

\* str.strip()
strip(s) == rstrip(lstrip(s))

PASS == <<"p", "a", "s", "s">>
FAIL == <<"f", "a", "i", "l">>

NonEmptyToken(s) == strip(s) # <<>>

RECURSIVE MapNorm(_)
MapNorm(h) == IF h = <<>> THEN <<>> ELSE <<lower(strip(Head(h)))>> \o MapNorm(Tail(h))

\* Line 137: h = [s.strip().lower() for s in history if s.strip()]
Normalized(history) == MapNorm(SelectSeq(history, NonEmptyToken))

RECURSIVE CountEq(_, _)
CountEq(h, tok) ==
    IF h = <<>> THEN 0 ELSE (IF Head(h) = tok THEN 1 ELSE 0) + CountEq(Tail(h), tok)

\* A variant of the membership test that skips the first element.
MutContainsAfterFirst(h, tok) == \E i \in 2..Len(h) : h[i] = tok

\* tok in h
Contains(h, tok) == \E i \in 1..Len(h) : h[i] = tok

Max(a, b) == IF a >= b THEN a ELSE b

\* Lines 142-147.  rate = fails / max(n, 1) is compared with 0.1 and 0.9 as the
\* exact quotient: with d = max(n, 1), 0.1 <= fails/d iff d <= 10*fails, and
\* fails/d <= 0.9 iff 10*fails <= 9*d (the float quotient compares the same way).
Result(label, fails, n) ==
    [label |-> label, failures |-> fails, runs |-> n, flaky |-> (label = "Flaky")]

\* A variant that answers Unknown for a history without tokens.
MutLabelUnknownOnEmpty(n, fails, mixed) ==
    IF n = 0 THEN "Unknown"
    ELSE IF mixed /\ n <= 10 * fails /\ 10 * fails <= 9 * n THEN "Flaky"
    ELSE IF fails > 0 /\ ~mixed THEN "Regressing"
    ELSE "Stable"

Label(n, fails, mixed) ==
    IF mixed /\ Max(n, 1) <= 10 * fails /\ 10 * fails <= 9 * Max(n, 1) THEN "Flaky"
    ELSE IF fails > 0 /\ ~mixed THEN "Regressing"
    ELSE "Stable"

\* Lines 138-147 on the normalized list h.
ClassifyNormalized(h) ==
    Result(Label(Len(h), CountEq(h, FAIL), Contains(h, FAIL) /\ Contains(h, PASS)),
           CountEq(h, FAIL), Len(h))

\* A variant with the band's bounds excluded (< for <=).
StrictLabel(n, fails, mixed) ==
    IF mixed /\ Max(n, 1) < 10 * fails /\ 10 * fails < 9 * Max(n, 1) THEN "Flaky"
    ELSE IF fails > 0 /\ ~mixed THEN "Regressing"
    ELSE "Stable"

StrictNormalized(h) ==
    Result(StrictLabel(Len(h), CountEq(h, FAIL), Contains(h, FAIL) /\ Contains(h, PASS)),
           CountEq(h, FAIL), Len(h))

MutClassifyStrictBand(history) == StrictNormalized(Normalized(history))

\* A variant with every token that is neither pass nor fail dropped first.
Recognized(s) == lower(strip(s)) \in {PASS, FAIL}

MutClassifyRecognizedOnly(history) ==
    ClassifyNormalized(MapNorm(SelectSeq(history, Recognized)))

\* _classify_simple(history)
_classify_simple(history) == ClassifyNormalized(Normalized(history))

\* tool_is_flaky(req): lines 149-151.
FlakyResponse(r) ==
    [flaky |-> r.flaky, failures |-> r.failures, runs |-> r.runs, label |-> r.label]

tool_is_flaky(req) == FlakyResponse(_classify_simple(req.history))

(***************************************************************************)
(* Optional values: None, or Some(v).                                      *)
(***************************************************************************)
None == [some |-> FALSE]
Some(v) == [some |-> TRUE, v |-> v]

(***************************************************************************)
(* The evidence providers: src/adapters/actions_metrics.py lines 76-81 and *)
(* src/adapters/log_store.py lines 47-67.                                  *)
(***************************************************************************)

\* (r.conclusion or "").lower() for the conclusions the model uses; "None" is None.
LowerConclusion(c) ==
    CASE c = "Success" -> "success" [] c = "None" -> "" [] OTHER -> c

RECURSIVE CountIn(_, _)
CountIn(runs, S) ==
    IF runs = <<>> THEN 0
    ELSE (IF LowerConclusion(Head(runs)) \in S THEN 1 ELSE 0) + CountIn(Tail(runs), S)

\* A variant of round() that drops the fraction.
MutRoundDown(a, b) == a \div b

\* round(a / b, 0) for a >= 0, b > 0, ties to even (Python's round).
RoundHalfEven(a, b) ==
    IF 2 * (a % b) < b THEN a \div b
    ELSE IF 2 * (a % b) > b THEN (a \div b) + 1
    ELSE IF (a \div b) % 2 = 0 THEN a \div b ELSE (a \div b) + 1

\* ActionsMetrics.summarize(runs); pass_rate is kept in hundredths of a percent
\* (round(100.0 * passed / total, 2) * 100), so 90.0 is 9000.
Metrics(total, passed, failed) ==
    [total |-> total, passed |-> passed, failed |-> failed,
     pass_rate |-> IF total # 0 THEN RoundHalfEven(10000 * passed, total) ELSE 0]

summarize(runs) ==
    Metrics(Len(runs), CountIn(runs, {"success"}),
            CountIn(runs, {"failure", "cancelled", "timed_out"}))

\* The log lines the model uses, with line.strip(), FAIL_PAT.search(line) and
\* s.lower() worked out for each.
LogLines ==
    { "  ERROR: Connection reset by peer", "FAILED test_a - AssertionError",
      "step ok", "Error: HTTP 503 from registry  ", "request timeout, retrying" }

StripLine(l) ==
    CASE l = "  ERROR: Connection reset by peer" -> "ERROR: Connection reset by peer"
      [] l = "Error: HTTP 503 from registry  " -> "Error: HTTP 503 from registry"
      [] OTHER -> l

\* \b(FAIL|FAILED|ERROR|Traceback|AssertionError)\b, ignoring case
FailPatSearch(l) ==
    l \in { "  ERROR: Connection reset by peer", "FAILED test_a - AssertionError",
            "Error: HTTP 503 from registry  " }

\* any(pat in s.lower() for pat in INFRA_PATTERNS), line 201 and 251
HasInfraPattern(s) ==
    s \in { "ERROR: Connection reset by peer", "  ERROR: Connection reset by peer",
            "Error: HTTP 503 from registry", "Error: HTTP 503 from registry  ",
            "request timeout, retrying" }

RECURSIVE ScanLines(_, _, _)
\* The inner loop of extract_failure_snippets over one file's lines: [snips, full],
\* full when the function returned from inside the loop.
ScanLines(lines, snips, max_snippets) ==
    IF lines = <<>> THEN [snips |-> snips, full |-> FALSE]
    ELSE IF ~FailPatSearch(Head(lines)) THEN ScanLines(Tail(lines), snips, max_snippets)
    ELSE IF Len(snips) + 1 >= max_snippets
         THEN [snips |-> Append(snips, StripLine(Head(lines))), full |-> TRUE]
    ELSE ScanLines(Tail(lines), Append(snips, StripLine(Head(lines))), max_snippets)

RECURSIVE ScanFiles(_, _, _, _, _)
RECURSIVE AfterFile(_, _, _, _, _)
\* The outer loop over the files, from file i on, with the snippets collected so far.
ScanFiles(files, i, snips, max_files, max_snippets) ==
    IF i > Len(files) \/ i - 1 >= max_files THEN snips
    ELSE AfterFile(files, i, ScanLines(files[i], snips, max_snippets), max_files, max_snippets)

AfterFile(files, i, r, max_files, max_snippets) ==
    IF r.full THEN r.snips
    ELSE ScanFiles(files, i + 1, r.snips, max_files, max_snippets)

\* LogStore.extract_failure_snippets(zip_bytes, max_files, max_snippets); the
\* archive is the sequence of its files, each the sequence of its lines.
extract_failure_snippets(files, max_files, max_snippets) ==
    ScanFiles(files, 1, <<>>, max_files, max_snippets)

\* seq[:n] for n >= 0
Take(seq, n) == SubSeq(seq, 1, IF n < Len(seq) THEN n ELSE Len(seq))

\* LogStore.list_log_files(zip_bytes, limit): the files are named by their position.
list_log_files(files, limit) == Take([i \in 1..Len(files) |-> i], limit)

(***************************************************************************)
(* The aggregate classifier: src/mcp_server.py lines 200-268.  Scores are  *)
(* kept in tenths (0.6 is 6).                                              *)
(***************************************************************************)

\* Python truthiness of an optional string, an optional int and an optional list.
TruthyStr(opt) == opt.some /\ opt.v # ""
TruthyInt(opt) == opt.some /\ opt.v # 0
TruthyList(opt) == opt.some /\ opt.v # <<>>

\* A variant that keeps the last of the largest values.
MutArgMaxLast(score) ==
    IF score.infra >= score.regression /\ score.infra >= score.flake THEN "infra"
    ELSE IF score.regression >= score.flake THEN "regression"
    ELSE "flake"

\* max(score, key=score.get): the first key, in insertion order, with the largest value.
ArgMax(score) ==
    IF score.flake >= score.regression /\ score.flake >= score.infra THEN "flake"
    ELSE IF score.regression >= score.infra THEN "regression"
    ELSE "infra"

\* str.title() on the three keys.
Title(k) == CASE k = "flake" -> "Flake" [] k = "regression" -> "Regression" [] k = "infra" -> "Infra"

\* Lines 228-237: the history part; Unknown when no history (or an empty one) is given.
BaseOf(req) ==
    IF TruthyList(req.history) THEN _classify_simple(req.history.v)
    ELSE [label |-> "Unknown", failures |-> 0, runs |-> 0, flaky |-> FALSE]

\* A variant whose metrics signal for regression does not ask for ten runs.
MutScoreRegressionWithoutRuns(label, pass_rate, runs_total, infraHit) ==
    [flake |-> (IF label = "Flaky" THEN 6 ELSE 0) + (IF pass_rate >= 9000 THEN 2 ELSE 0),
     regression |-> (IF label = "Regressing" THEN 5 ELSE 0)
                    + (IF pass_rate < 9000 /\ pass_rate <= 5000 THEN 2 ELSE 0),
     infra |-> IF infraHit THEN 6 ELSE 0]

\* Lines 239-252: the score vector.
Score(label, pass_rate, runs_total, infraHit) ==
    [flake |-> (IF label = "Flaky" THEN 6 ELSE 0) + (IF pass_rate >= 9000 THEN 2 ELSE 0),
     regression |-> (IF label = "Regressing" THEN 5 ELSE 0)
                    + (IF pass_rate < 9000 /\ pass_rate <= 5000 /\ runs_total >= 10 THEN 2 ELSE 0),
     infra |-> IF infraHit THEN 6 ELSE 0]

\* A variant that appends the history line before the evidence lines.
MutReasonsHistoryFirst(hasRepo, pass_rate, runs_total, snips, label, infraHit) ==
    (IF label = "Flaky" THEN <<[kind |-> "history_flake"]>>
     ELSE IF label = "Regressing" THEN <<[kind |-> "history_regression"]>>
     ELSE <<>>)
    \o (IF hasRepo
        THEN <<[kind |-> "metrics", pass_rate |-> pass_rate, runs_total |-> runs_total]>>
        ELSE <<>>)
    \o (IF snips # <<>> THEN <<[kind |-> "collected", count |-> Len(snips)]>> ELSE <<>>)
    \o (IF infraHit THEN <<[kind |-> "infra"]>> ELSE <<>>)

\* Lines 217, 225, 242, 244, 252: the justification lines, in the order appended.
Reasons(hasRepo, pass_rate, runs_total, snips, label, infraHit) ==
    (IF hasRepo
     THEN <<[kind |-> "metrics", pass_rate |-> pass_rate, runs_total |-> runs_total]>>
     ELSE <<>>)
    \o (IF snips # <<>> THEN <<[kind |-> "collected", count |-> Len(snips)]>> ELSE <<>>)
    \o (IF label = "Flaky" THEN <<[kind |-> "history_flake"]>>
        ELSE IF label = "Regressing" THEN <<[kind |-> "history_regression"]>>
        ELSE <<>>)
    \o (IF infraHit THEN <<[kind |-> "infra"]>> ELSE <<>>)

InfraHit(snips) == \E i \in 1..Len(snips) : HasInfraPattern(snips[i])

\* Lines 254-268: the label of the top score and the response.
Response(top, score, b, pass_rate, runs_total, snips, reasons) ==
    [label |-> IF top = "Flake" THEN "Flaky" ELSE top,
     flaky |-> (top = "Flake"),
     score |-> score,
     failures |-> b.failures,
     runs |-> b.runs,
     evidence |-> [pass_rate |-> pass_rate, runs_total |-> runs_total, log_snippets |-> snips],
     reasons |-> reasons]

Scored(score, b, pass_rate, runs_total, snips, reasons) ==
    Response(Title(ArgMax(score)), score, b, pass_rate, runs_total, snips, reasons)

Combined(b, hasRepo, pass_rate, runs_total, snips) ==
    Scored(Score(b.label, pass_rate, runs_total, InfraHit(snips)), b, pass_rate, runs_total, snips,
           Reasons(hasRepo, pass_rate, runs_total, snips, b.label, InfraHit(snips)))

\* Lines 205-257 once the providers have answered: req is the validated request,
\* m the metrics (used when a repo was given), snips the snippets fetched.
Aggregate(req, hasRepo, m, snips) ==
    Combined(BaseOf(req), hasRepo, IF hasRepo THEN m.pass_rate ELSE 0,
             IF hasRepo THEN m.total ELSE 0, snips)

(***************************************************************************)
(* The tools and the JSON-RPC plumbing: src/mcp_server.py lines 149-268    *)
(* and 319-365.  A tool's outcome is [raised, exc, result, file, audits]:  *)
(* whether it raised and with what message, its response, the audit file   *)
(* afterwards and the number of audit_write calls it made.  env holds what  *)
(* the outside world answers during the call: io1 and io2 (whether the     *)
(* first and second audit_write can write), runs, zip, pr and jira (the    *)
(* providers' answers).                                                    *)
(***************************************************************************)
NoResult == [none |-> TRUE]

Raised(msg, file, audits) ==
    [raised |-> TRUE, exc |-> msg, result |-> NoResult, file |-> file, audits |-> audits]

Returned(result, file, audits) ==
    [raised |-> FALSE, exc |-> "", result |-> result, file |-> file, audits |-> audits]

\* A variant whose return value carries the number of entries in the log.
MutResultCarriesLogLength(w, result) ==
    IF w.raised THEN Raised("OSError: audit log", w.file, 1)
    ELSE Returned([result |-> result, entries |-> Len(w.file.lines)], w.file, 1)

\* A tool's closing audit_write(..., ok=True, t_ms) followed by its return value.
AfterWrite(w, result) ==
    IF w.raised THEN Raised("OSError: audit log", w.file, 1)
    ELSE Returned(result, w.file, 1)

Audited(event, payload, logged, result, env, file, now) ==
    AfterWrite(audit_write(file, now, event, payload, logged, TRUE, 1, env.io1), result)

\* Lines 149-151 under handle: no audit_write.
run_is_flaky(req, env, file, now) == Returned(tool_is_flaky(req), file, 0)

\* The four hint strings of lines 157-160.
HintSeed   == "Seed RNG; replace time.sleep with condition-based waits."
HintFreeze == "Freeze time (freezegun/fake timers) to eliminate clock drift."
HintMock   == "Mock external deps (network/files/db) to remove nondeterminism."
HintOrder  == "Ensure test order independence; isolate global state and I/O."

\* Python compares str by code point; the hints differ in their first character
\* ("E" 69, "F" 70, "M" 77, "S" 83), which therefore decides their order.
Ord(s) ==
    CASE s = HintOrder -> 69
      [] s = HintFreeze -> 70
      [] s = HintMock -> 77
      [] s = HintSeed -> 83

\* A variant of sorted() that puts the greatest string first.
RECURSIVE MutSortedDescending(_)
MutSortedDescending(S) ==
    IF S = {} THEN <<>>
    ELSE LET m == CHOOSE x \in S : \A y \in S : Ord(x) >= Ord(y)
         IN  <<m>> \o MutSortedDescending(S \ {m})

\* sorted(tips), line 161: the elements of the set in ascending order.
RECURSIVE sorted(_)
sorted(S) ==
    IF S = {} THEN <<>>
    ELSE LET m == CHOOSE x \in S : \A y \in S : Ord(x) <= Ord(y)
         IN  <<m>> \o sorted(S \ {m})

\* A variant of lines 154-160 that adds the two extra hints as soon as a run failed.
MutTipsOnAnyFail(h) ==
    (IF Contains(h, FAIL) THEN {HintSeed, HintFreeze} ELSE {})
        \cup {HintMock, HintOrder}

\* Lines 154-160: the set tips for the normalized history h.
Tips(h) ==
    (IF Contains(h, FAIL) /\ Contains(h, PASS) THEN {HintSeed, HintFreeze} ELSE {})
        \cup {HintMock, HintOrder}

\* tool_suggest_fix(req): lines 153-161.
Suggestions(h) == [suggestions |-> sorted(Tips(h))]

tool_suggest_fix(req) == Suggestions(Normalized(req.history))

run_suggest_fix(req, env, file, now) == Returned(tool_suggest_fix(req), file, 0)

\* tool_get_actions_metrics(req): lines 164-171.
tool_get_actions_metrics(req, env, file, now) ==
    IF ~env.runs.ok THEN Raised("HTTPError: list_runs", file, 0)
    ELSE Audited("get_actions_metrics", req, summarize(env.runs.runs),
                 summarize(env.runs.runs), env, file, now)

\* Lines 179-182 of tool_get_ci_log_snippets.
SnippetsFound(req, names, snips, env, file, now) ==
    Audited("get_ci_log_snippets", req,
            [files_preview |-> Take(names, 5), snippets_len |-> Len(snips)],
            [files_preview |-> Take(names, 20), snippets |-> snips],
            env, file, now)

\* tool_get_ci_log_snippets(req): lines 173-182.
tool_get_ci_log_snippets(req, env, file, now) ==
    IF ~env.zip.ok THEN Raised("HTTPError: fetch_run_logs_zip", file, 0)
    ELSE SnippetsFound(req, list_log_files(env.zip.files, req.max_files),
                       extract_failure_snippets(env.zip.files, req.max_files, req.max_snippets),
                       env, file, now)

\* tool_open_pr(req): lines 184-190.
tool_open_pr(req, env, file, now) ==
    IF ~env.pr.ok THEN Raised("HTTPError: open_pr", file, 0)
    ELSE Audited("open_pr", req, env.pr.pr, env.pr.pr, env, file, now)

\* tool_create_jira(req): lines 192-198; out["key"] is read after the audit_write.
JiraResponse(a, out) ==
    IF a.raised THEN a
    ELSE IF "key" \notin DOMAIN out THEN Raised("KeyError: 'key'", a.file, 1)
    ELSE Returned([key |-> out.key, id |-> out.id], a.file, 1)

tool_create_jira(req, env, file, now) ==
    IF ~env.jira.ok THEN Raised("HTTPError: create_issue", file, 0)
    ELSE JiraResponse(Audited("create_jira", req, env.jira.out, NoResult, env, file, now),
                      env.jira.out)

\* Lines 259-268 of tool_classify_aggregate.
AggregateDone(req, a, env, file, now) ==
    Audited("classify_aggregate", req,
            [label |-> a.label, score |-> a.score, reasons |-> a.reasons],
            a, env, file, now)

\* A variant that fetches the run metrics whether or not a repo was given.
MutAggregateAlwaysFetches(req, hasRepo, hasRun, env, file, now) ==
    IF ~env.runs.ok THEN Raised("HTTPError: list_runs", file, 0)
    ELSE IF hasRun /\ ~env.zip.ok THEN Raised("HTTPError: fetch_run_logs_zip", file, 0)
    ELSE AggregateDone(req,
             Aggregate(req, TRUE, summarize(env.runs.runs),
                       IF hasRun
                       THEN extract_failure_snippets(env.zip.files, 10, req.max_log_snippets)
                       ELSE <<>>),
             env, file, now)

\* Lines 210-268 with hasRepo = bool(req.repo) and hasRun = bool(req.repo and req.run_id).
AggregateWith(req, hasRepo, hasRun, env, file, now) ==
    IF hasRepo /\ ~env.runs.ok THEN Raised("HTTPError: list_runs", file, 0)
    ELSE IF hasRun /\ ~env.zip.ok THEN Raised("HTTPError: fetch_run_logs_zip", file, 0)
    ELSE AggregateDone(req,
             Aggregate(req, hasRepo,
                       IF hasRepo THEN summarize(env.runs.runs) ELSE summarize(<<>>),
                       IF hasRun
                       THEN extract_failure_snippets(env.zip.files, 10, req.max_log_snippets)
                       ELSE <<>>),
             env, file, now)

\* tool_classify_aggregate(req): lines 203-268.
tool_classify_aggregate(req, env, file, now) ==
    AggregateWith(req, TruthyStr(req.repo), TruthyStr(req.repo) /\ TruthyInt(req.run_id),
                  env, file, now)

ToolMethods ==
    {"is_flaky", "suggest_fix", "get_actions_metrics", "get_ci_log_snippets",
     "open_pr", "create_jira", "classify_aggregate"}

\* The tools whose code calls audit_write before returning.
AuditedTools == ToolMethods \ {"is_flaky", "suggest_fix"}

\* The branch of handle's dispatch for a tool method: Request(**params), then the tool.
Dispatch(method, params, env, file, now) ==
    IF ~params.valid THEN Raised("ValidationError", file, 0)
    ELSE CASE method = "is_flaky" -> run_is_flaky(params.fields, env, file, now)
           [] method = "suggest_fix" -> run_suggest_fix(params.fields, env, file, now)
           [] method = "get_actions_metrics" -> tool_get_actions_metrics(params.fields, env, file, now)
           [] method = "get_ci_log_snippets" -> tool_get_ci_log_snippets(params.fields, env, file, now)
           [] method = "open_pr" -> tool_open_pr(params.fields, env, file, now)
           [] method = "create_jira" -> tool_create_jira(params.fields, env, file, now)
           [] method = "classify_aggregate" -> tool_classify_aggregate(params.fields, env, file, now)

\* _ok and _err: lines 320-326.
_ok(id, result) == [id |-> id, kind |-> "result", result |-> result]
_err(id, code, message, data) ==
    [id |-> id, kind |-> "error", code |-> code, message |-> message, data |-> data]

\* What handling one line did, for the properties: whether a tool was dispatched,
\* whether it raised, how many audit_write calls were made and how many wrote.
Trace(tool, raised, exc, audits, escaped) ==
    [tool |-> tool, raised |-> raised, exc |-> exc, audits |-> audits, escaped |-> escaped]

\* Lines 352-353, and main's lines 362-363 when the audit_write of line 352 raises:
\* t is the tool's outcome, w the outcome of audit_write("exception", ...).
AfterExceptionAudit(req, t, w) ==
    IF w.raised
    THEN [resp |-> _err(None, -32700, <<"Parse error: ", "OSError: audit log">>, None),
          file |-> w.file, trace |-> Trace(TRUE, TRUE, t.exc, t.audits + 1, TRUE)]
    ELSE [resp |-> _err(req.id, -32603, <<"Internal error: ", t.exc>>, Some("traceback")),
          file |-> w.file, trace |-> Trace(TRUE, TRUE, t.exc, t.audits + 1, FALSE)]

\* A variant of the except branch with the traceback logged in place of the message,
\* and ok left true.
MutExceptionLogsTraceback(req, env, now, t) ==
    IF ~t.raised
    THEN [resp |-> _ok(req.id, t.result), file |-> t.file,
          trace |-> Trace(TRUE, FALSE, "", t.audits, FALSE)]
    ELSE AfterExceptionAudit(req, t,
             audit_write(t.file, now + t.audits, "exception",
                         [method |-> req.method, params |-> req.params],
                         [error |-> "traceback"], TRUE, 0, env.io2))

\* Lines 335-353 with t the outcome of the tool: its result, or the except branch.
AfterTool(req, env, now, t) ==
    IF ~t.raised
    THEN [resp |-> _ok(req.id, t.result), file |-> t.file,
          trace |-> Trace(TRUE, FALSE, "", t.audits, FALSE)]
    ELSE AfterExceptionAudit(req, t,
             audit_write(t.file, now + t.audits, "exception",
                         [method |-> req.method, params |-> req.params],
                         [error |-> t.exc], FALSE, 0, env.io2))

\* A variant that looks the method up in the tool table inside the try block, so that
\* an unknown method raises there.
MutHandleUnknownRaises(req, env, file, now) ==
    IF req.jsonrpc # "2.0"
    THEN [resp |-> _err(req.id, -32600, <<"Invalid Request: jsonrpc must be '2.0'">>, None),
          file |-> file, trace |-> Trace(FALSE, FALSE, "", 0, FALSE)]
    ELSE IF req.method = "mcp.list_tools"
    THEN [resp |-> _ok(req.id, [transport |-> "stdio", tools |-> ToolMethods]),
          file |-> file, trace |-> Trace(FALSE, FALSE, "", 0, FALSE)]
    ELSE IF req.method \notin ToolMethods
    THEN AfterTool(req, env, now, Raised("KeyError", file, 0))
    ELSE AfterTool(req, env, now, Dispatch(req.method, req.params, env, file, now))

\* handle(req): lines 328-353.  [resp, file, trace]; trace.escaped says an exception
\* left handle (resp is then main's).
handle(req, env, file, now) ==
    IF req.jsonrpc # "2.0"
    THEN [resp |-> _err(req.id, -32600, <<"Invalid Request: jsonrpc must be '2.0'">>, None),
          file |-> file, trace |-> Trace(FALSE, FALSE, "", 0, FALSE)]
    ELSE IF req.method = "mcp.list_tools"
    THEN [resp |-> _ok(req.id, [transport |-> "stdio", tools |-> ToolMethods]),
          file |-> file, trace |-> Trace(FALSE, FALSE, "", 0, FALSE)]
    ELSE IF req.method \notin ToolMethods
    THEN [resp |-> _err(req.id, -32601, <<"Method not found: ", req.method>>, None),
          file |-> file, trace |-> Trace(FALSE, FALSE, "", 0, FALSE)]
    ELSE AfterTool(req, env, now, Dispatch(req.method, req.params, env, file, now))

(***************************************************************************)
(* Concurrent writers.  The HTTP facade's mcp_call starts one server       *)
(* process per request (src/integrations/http_facade.py lines 31-44), and  *)
(* its endpoints run concurrently, so several processes may be inside      *)
(* audit_write on the same file.  A writer's steps are the statements of   *)
(* audit_write: line 33 reads the last hash, lines 34-46 build and append. *)
(***************************************************************************)
Writers == 1..NWriters

\* The arguments of the audit_write calls the writers make.
WriterCalls ==
    { [event |-> "classify_aggregate", payload |-> [test_name |-> "t"],
       result |-> [label |-> "Flaky"], ok |-> TRUE, t_ms |-> 1],
      [event |-> "exception", payload |-> [method |-> "is_flaky"],
       result |-> [error |-> "boom"], ok |-> FALSE, t_ms |-> 0] }

NoCall == [event |-> "none"]

InFlight == {w \in Writers : wpc[w] # "idle"}

WritersIdle ==
    /\ wpc = [w \in Writers |-> "idle"]
    /\ wprev = [w \in Writers |-> ZeroHash]
    /\ wcall = [w \in Writers |-> NoCall]
    /\ wseen = [w \in Writers |-> 0]
    /\ snap = <<>>
    /\ by = <<>>
    /\ lock = 0

ServerIdle ==
    /\ nout = 0
    /\ nread = 0
    /\ last = [kind |-> "none"]

NoRes == [label |-> "none"]

HistoryIdle ==
    /\ hist = <<>>
    /\ res = NoRes
    /\ base = NoRes

NoTamper == [kind |-> "none"]

TamperIdle == tamper = NoTamper

NoArg == [kind |-> "none"]
NoRet == [kind |-> "none"]

CallIdle == arg = NoArg /\ ret = NoRet

\* A process enters audit_write (the code as written: nothing to wait for).
Call(w) ==
    /\ wpc[w] = "idle"
    /\ clock + Cardinality(InFlight) < MaxRaceLog
    /\ \E c \in WriterCalls : wcall' = [wcall EXCEPT ![w] = c]
    /\ wpc' = [wpc EXCEPT ![w] = "read"]
    /\ UNCHANGED <<audit, clock, wprev, wseen, snap, by, lock, serverVars, historyVars, tamperVars, callVars>>

\* A process enters audit_write inside the exclusive section (spec section 5).
Acquire(w) ==
    /\ wpc[w] = "idle"
    /\ lock = 0
    /\ clock + Cardinality(InFlight) < MaxRaceLog
    /\ \E c \in WriterCalls : wcall' = [wcall EXCEPT ![w] = c]
    /\ wpc' = [wpc EXCEPT ![w] = "read"]
    /\ lock' = w
    /\ UNCHANGED <<audit, clock, wprev, wseen, snap, by, serverVars, historyVars, tamperVars, callVars>>

\* Line 33: prev = _last_hash(AUDIT_PATH).
ReadLast(w) ==
    /\ wpc[w] = "read"
    /\ LET lh == _last_hash(audit) IN
       /\ wprev' = [wprev EXCEPT ![w] = lh.value]
       /\ wpc' = [wpc EXCEPT ![w] = IF lh.raised THEN "written" ELSE "append"]
    /\ wseen' = [wseen EXCEPT ![w] = Len(audit.lines)]
    /\ UNCHANGED <<audit, clock, wcall, snap, by, lock, serverVars, historyVars, tamperVars, callVars>>

\* Lines 34-46: build the entry around the prev read earlier, hash it, append it.
AppendEntry(w) ==
    /\ wpc[w] = "append"
    /\ \E io \in BOOLEAN :
         IF io
         THEN /\ audit' = AppendLine(audit, SealEntry(EntryFields(clock, wcall[w].event,
                               wcall[w].payload, wcall[w].result, wcall[w].ok,
                               wcall[w].t_ms, wprev[w])))
              /\ snap' = Append(snap, wseen[w])
              /\ by' = Append(by, w)
         ELSE UNCHANGED <<audit, snap, by>>
    /\ clock' = clock + 1
    /\ wpc' = [wpc EXCEPT ![w] = "written"]
    /\ UNCHANGED <<wprev, wcall, wseen, lock, serverVars, historyVars, tamperVars, callVars>>

\* audit_write returns (or raises) to its caller.
Return(w) ==
    /\ wpc[w] = "written"
    /\ wpc' = [wpc EXCEPT ![w] = "idle"]
    /\ wcall' = [wcall EXCEPT ![w] = NoCall]
    /\ UNCHANGED <<audit, clock, wprev, wseen, snap, by, lock, serverVars, historyVars, tamperVars, callVars>>

\* audit_write returns (or raises) and the exclusive section is left.
Release(w) ==
    /\ wpc[w] = "written"
    /\ lock = w
    /\ wpc' = [wpc EXCEPT ![w] = "idle"]
    /\ wcall' = [wcall EXCEPT ![w] = NoCall]
    /\ lock' = 0
    /\ UNCHANGED <<audit, clock, wprev, wseen, snap, by, serverVars, historyVars, tamperVars, callVars>>

InitWriters ==
    /\ audit \in {NoFile, [exists |-> TRUE, lines |-> <<>>]}
    /\ clock = 0
    /\ WritersIdle
    /\ ServerIdle
    /\ HistoryIdle
    /\ TamperIdle
    /\ CallIdle

NextRace == \E w \in Writers : Call(w) \/ ReadLast(w) \/ AppendEntry(w) \/ Return(w)

NextLocked == \E w \in Writers : Acquire(w) \/ ReadLast(w) \/ AppendEntry(w) \/ Release(w)

SpecRace == InitWriters /\ [][NextRace]_vars

SpecLocked == InitWriters /\ [][NextLocked]_vars

\* The hash of the line that was last when a writer saw n lines.
HashSeen(file, n) == IF n = 0 THEN ZeroHash ELSE Entries(file)[n].hash

\* C2: without a lock, every entry's prev is the hash that was last when its writer
\* read the file (line 33), not when it appended: writers that read the same log
\* length before either appended leave entries with an identical prev.
C2_StaleReadGivesSamePrev ==
    LET e == Entries(audit) IN
    /\ \A i \in 1..Len(e) : e[i].prev = HashSeen(audit, snap[i])
    /\ \A i, j \in 1..Len(e) : snap[i] = snap[j] => e[i].prev = e[j].prev

\* Two writers both read before either appended, and the log now holds their two
\* entries with the same prev: the chain is broken.
C2_Witness ==
    /\ DupPrev(audit)
    /\ ~ChainOK(audit)
    /\ \E i, j \in 1..Len(snap) : i < j /\ by[i] # by[j] /\ snap[i] = snap[j]

\* C3: with audit_write inside an exclusive section no two entries share a prev and
\* the chain holds in every reachable state.
C3_LockedChain == ChainOK(audit) /\ ~DupPrev(audit)

\* Two different writers have appended, one right after the other, while the other
\* writer contended for the section.
C3_Witness ==
    /\ Len(audit.lines) >= 2
    /\ \E i \in 1..(Len(by) - 1) : by[i] # by[i+1]
    /\ \E w \in Writers : lock = w /\ wpc[w] = "append"

(***************************************************************************)
(* One server process: main(), src/mcp_server.py lines 355-365, reading    *)
(* its input line by line.                                                 *)
(***************************************************************************)
Params(valid, fields) == [valid |-> valid, fields |-> fields]

BadParams == Params(FALSE, [history |-> "pass,fail"])

\* The params the requests of the model carry, per method.
ParamsOf(method) ==
    CASE method \in {"is_flaky", "suggest_fix"} ->
            {BadParams, Params(TRUE, [test_name |-> "t", history |-> <<PASS, FAIL>>])}
      [] method = "get_actions_metrics" ->
            {BadParams, Params(TRUE, [repo |-> "o/r", branch |-> None])}
      [] method = "get_ci_log_snippets" ->
            {BadParams, Params(TRUE, [repo |-> "o/r", run_id |-> 7, max_files |-> 10, max_snippets |-> 20])}
      [] method = "open_pr" ->
            {BadParams, Params(TRUE, [repo |-> "o/r", head |-> "fix", base |-> "main",
                                      title |-> "t", body |-> "", draft |-> TRUE])}
      [] method = "create_jira" ->
            {BadParams, Params(TRUE, [project_key |-> "P", summary |-> "s",
                                      description |-> "", issue_type |-> "Task"])}
      [] method = "classify_aggregate" ->
            {BadParams,
             Params(TRUE, [test_name |-> "t", repo |-> None, run_id |-> None,
                           history |-> Some(<<PASS, FAIL, PASS, FAIL>>), max_log_snippets |-> 20]),
             Params(TRUE, [test_name |-> "t", repo |-> Some("o/r"), run_id |-> Some(7),
                           history |-> None, max_log_snippets |-> 20])}
      [] OTHER -> {Params(TRUE, [x |-> 0])}

Methods == ToolMethods \cup {"mcp.list_tools", "no_such_method"}

\* The input lines: blank, not JSON, JSON but no object, and request objects.
Request(jsonrpc, id, method, params) ==
    [kind |-> "object", jsonrpc |-> jsonrpc, id |-> id, method |-> method, params |-> params]

RequestLines(id) ==
    {Request("2.0", id, m, p) : m \in Methods, p \in UNION {ParamsOf(mm) : mm \in Methods}}

Lines(id) ==
    {l \in RequestLines(id) : l.params \in ParamsOf(l.method)}
    \cup {Request("1.0", id, "is_flaky", BadParams)}
    \cup {[kind |-> "blank"], [kind |-> "garbage"], [kind |-> "nonobject"]}

\* What the outside world may answer.
OkRuns == [ok |-> TRUE, runs |-> <<"success", "failure", "Success", "None">>]
OkZip == [ok |-> TRUE, files |-> << <<"step ok", "  ERROR: Connection reset by peer">>,
                                    <<"FAILED test_a - AssertionError">> >>]
OkPr == [ok |-> TRUE, pr |-> [number |-> 1, url |-> "u", html_url |-> "h", state |-> "open",
                             title |-> "t", head |-> "fix", base |-> "main"]]
OkJira == [ok |-> TRUE, out |-> [key |-> "P-1", id |-> "10001"]]
Down == [ok |-> FALSE]

AllEnvs ==
    [io1 : BOOLEAN, io2 : BOOLEAN, runs : {OkRuns, Down}, zip : {OkZip, Down},
     pr : {OkPr, Down}, jira : {OkJira, [ok |-> TRUE, out |-> [id |-> "10001"]], Down}]

CalmEnv == [io1 |-> TRUE, io2 |-> TRUE, runs |-> OkRuns, zip |-> OkZip, pr |-> OkPr, jira |-> OkJira]

\* The answers a request consults: those it never asks for are left at CalmEnv's,
\* so that each behaviour of a request is drawn once.
Consults(l, e) ==
    LET tool == l.jsonrpc = "2.0" /\ l.method \in ToolMethods /\ l.params.valid
        f == l.params.fields
        usesRuns == tool /\ (l.method = "get_actions_metrics"
                             \/ (l.method = "classify_aggregate" /\ TruthyStr(f.repo)))
        usesZip == tool /\ (l.method = "get_ci_log_snippets"
                            \/ (l.method = "classify_aggregate" /\ TruthyStr(f.repo)
                                /\ TruthyInt(f.run_id) /\ e.runs.ok))
        usesPr == tool /\ l.method = "open_pr"
        usesJira == tool /\ l.method = "create_jira"
        down == \/ usesRuns /\ ~e.runs.ok
                \/ usesZip /\ ~e.zip.ok
                \/ usesPr /\ ~e.pr.ok
                \/ usesJira /\ ~e.jira.ok
        writes == tool /\ l.method \in AuditedTools /\ ~down
        raises == \/ l.jsonrpc = "2.0" /\ l.method \in ToolMethods /\ ~l.params.valid
                  \/ down
                  \/ writes /\ ~e.io1
                  \/ writes /\ usesJira /\ "key" \notin DOMAIN e.jira.out
    IN  /\ usesRuns \/ e.runs = CalmEnv.runs
        /\ usesZip \/ e.zip = CalmEnv.zip
        /\ usesPr \/ e.pr = CalmEnv.pr
        /\ usesJira \/ e.jira = CalmEnv.jira
        /\ writes \/ e.io1
        /\ raises \/ e.io2

Envs(l) == IF l.kind # "object" THEN {CalmEnv} ELSE {e \in AllEnvs : Consults(l, e)}

NoTrace == Trace(FALSE, FALSE, "", 0, FALSE)
NoResp == [kind |-> "none"]

InitServer ==
    /\ audit \in {NoFile, [exists |-> TRUE, lines |-> <<>>]}
    /\ clock = 0
    /\ ServerIdle
    /\ WritersIdle
    /\ HistoryIdle
    /\ TamperIdle
    /\ CallIdle

\* Lines 357-358: a blank line is skipped.
SkipBlank ==
    /\ nread < MaxLines
    /\ nread' = nread + 1
    /\ last' = [kind |-> "line", line |-> [kind |-> "blank"], env |-> CalmEnv, resp |-> NoResp,
                before |-> Len(audit.lines), trace |-> NoTrace]
    /\ UNCHANGED <<audit, clock, nout, writerVars, historyVars, tamperVars, callVars>>

\* Lines 359-365 for a line json.loads rejects, or one that is no object (req.get
\* raises AttributeError in handle): the response is main's -32700 with id null.
AnswerUnparsed ==
    /\ nread < MaxLines
    /\ \E k \in {"garbage", "nonobject"} :
         last' = [kind |-> "line", line |-> [kind |-> k], env |-> CalmEnv,
                  resp |-> _err(None, -32700,
                                <<"Parse error: ", IF k = "garbage" THEN "JSONDecodeError"
                                                   ELSE "AttributeError">>, None),
                  before |-> Len(audit.lines), trace |-> NoTrace]
    /\ nread' = nread + 1
    /\ nout' = nout + 1
    /\ UNCHANGED <<audit, clock, writerVars, historyVars, tamperVars, callVars>>

\* The state after handle(l) has returned h and its response has been written.
Answered(l, e, h) ==
    /\ audit' = h.file
    /\ clock' = clock + h.trace.audits
    /\ last' = [kind |-> "line", line |-> l, env |-> e, resp |-> h.resp,
                before |-> Len(audit.lines), trace |-> h.trace]

\* Lines 359-365 for a request object: handle(req), then the response is written.
AnswerRequest ==
    /\ nread < MaxLines
    /\ \E l \in {x \in Lines(Some(nread + 1)) : x.kind = "object"} :
       \E e \in Envs(l) :
         Answered(l, e, handle(l, e, audit, clock))
    /\ nread' = nread + 1
    /\ nout' = nout + 1
    /\ UNCHANGED <<writerVars, historyVars, tamperVars, callVars>>

Next == SkipBlank \/ AnswerUnparsed \/ AnswerRequest

Spec == InitServer /\ [][Next]_vars

(***************************************************************************)
(* Properties of the server process.                                       *)
(***************************************************************************)
\* The entries appended while the last line was handled.
Appended == Len(audit.lines) - last.before

LastEntry == Entries(audit)[Len(audit.lines)]

\* The last line was a request that handle dispatched to a tool.
ToolCall == last.kind = "line" /\ last.trace.tool

\* An audit_write call made for the last line raised (it appended nothing).
AuditFailed == last.kind = "line" /\ last.trace.audits > Appended

\* C1: after audit_write calls made one at a time on a log that was absent or empty,
\* the first entry's prev is 64 zero characters, every later prev is the hash stored
\* just before it, and every stored hash is the digest of the entry's other fields.
C1_SequentialChain ==
    /\ ChainOK(audit)
    /\ Len(audit.lines) >= 1 =>
          /\ Len(Entries(audit)[1].prev) = 64
          /\ \A i \in 1..64 : Entries(audit)[1].prev[i] = "0"

\* Three entries have been written, the last by the request just handled.
C1_Witness ==
    /\ Len(audit.lines) >= 3
    /\ ToolCall
    /\ Appended >= 1

\* C4 (as claimed), for calls during which the log file can be written: every tool
\* invocation, whether it succeeds or raises, appends an audit entry for itself.
C4_EveryInvocationAudited ==
    (ToolCall /\ last.env.io1 /\ last.env.io2
     /\ last.line.method \in {"is_flaky", "suggest_fix", "get_actions_metrics",
                              "get_ci_log_snippets", "classify_aggregate"}) =>
        /\ Appended >= 1
        /\ \/ LastEntry.event = last.line.method
           \/ LastEntry.event = "exception" /\ LastEntry.payload.method = last.line.method

\* A provider consulted by the last classify_aggregate call was down.
ProviderDown ==
    /\ ToolCall
    /\ last.line.method = "classify_aggregate"
    /\ last.line.params.valid
    /\ TruthyStr(last.line.params.fields.repo)
    /\ ~last.env.runs.ok \/ (TruthyInt(last.line.params.fields.run_id) /\ ~last.env.zip.ok)

\* C5 (as claimed), for calls during which the log file can be written: when the
\* metrics fetch or the snippet fetch fails, classify_aggregate still returns a
\* classification, with the failed evidence absent from the score.
C5_ProviderFailureTolerated ==
    (ProviderDown /\ last.env.io1 /\ last.env.io2) =>
        /\ last.resp.kind = "result"
        /\ ~last.env.runs.ok => last.resp.result.evidence.runs_total = 0
        /\ ~last.env.zip.ok => last.resp.result.score.infra = 0

\* C6: a failed audit_write is never swallowed: the caller then gets an error, and a
\* success result of an audited tool comes only with its ok=true entry appended.
C6_AuditFailurePropagates ==
    /\ AuditFailed => last.resp.kind = "error"
    /\ (ToolCall /\ last.line.method \in AuditedTools /\ last.resp.kind = "result") =>
          /\ Appended = 1
          /\ LastEntry.ok
          /\ LastEntry.event = last.line.method
          /\ LastEntry.payload = last.line.params.fields

\* The audit_write of a classify_aggregate call that had computed its result failed,
\* and the caller got an error.
C6_Witness ==
    /\ AuditFailed
    /\ last.line.method = "classify_aggregate"
    /\ last.line.params.valid
    /\ ~ProviderDown
    /\ ~last.env.io1
    /\ last.resp.kind = "error"

\* The entry and the response the except branch of handle is meant to leave.
ExceptionRecorded ==
    /\ Appended >= 1
    /\ LastEntry.event = "exception"
    /\ ~LastEntry.ok
    /\ LastEntry.result = [error |-> last.trace.exc]
    /\ LastEntry.payload.method = last.line.method
    /\ last.resp.kind = "error"
    /\ last.resp.code = -32603
    /\ last.resp.message = <<"Internal error: ", last.trace.exc>>
    /\ last.resp.id = last.line.id

SeqsUpTo(S, n) == UNION {[1..k -> S] : k \in 0..n}

Rep(tok, k) == [i \in 1..k |-> tok]

\* "pass", "fail", " Pass", "FAIL ", "", " ", "skip"
RawTokens ==
    { PASS, FAIL, <<" ", "P", "a", "s", "s">>, <<"F", "A", "I", "L", " ">>,
      <<>>, <<" ">>, <<"s", "k", "i", "p">> }

\* Tokens that after strip().lower() are neither "pass" nor "fail".
UnrecognizedTokens == {t \in RawTokens : lower(strip(t)) \notin {PASS, FAIL}}

\* a passes followed by b fails: long enough to reach both ends of the band.
LongHistories == {Rep(PASS, a) \o Rep(FAIL, b) : a, b \in 0..MaxRep}

Histories == SeqsUpTo(RawTokens, MaxRawLen) \cup LongHistories

InitHistory ==
    /\ hist \in Histories
    /\ res = NoRes
    /\ base = NoRes
    /\ audit = NoFile
    /\ clock = 0
    /\ WritersIdle
    /\ ServerIdle
    /\ TamperIdle
    /\ CallIdle

\* is_flaky is called with hist.
IsFlaky ==
    /\ res = NoRes
    /\ res' = tool_is_flaky([test_name |-> "t", history |-> hist])
    /\ UNCHANGED <<hist, base, audit, clock, serverVars, writerVars, tamperVars, callVars>>

\* is_flaky is called again with the earlier history plus k copies of an
\* unrecognized token, put at the front, in the middle or at the end.
IsFlakyWithUnrecognized ==
    /\ res # NoRes
    /\ base = NoRes
    /\ \E tok \in UnrecognizedTokens, k \in 1..MaxRep, p \in {0, Len(hist) \div 2, Len(hist)} :
         hist' = SubSeq(hist, 1, p) \o Rep(tok, k) \o SubSeq(hist, p + 1, Len(hist))
    /\ base' = [hist |-> hist, res |-> res]
    /\ res' = tool_is_flaky([test_name |-> "t", history |-> hist'])
    /\ UNCHANGED <<audit, clock, serverVars, writerVars, tamperVars, callVars>>

NextHistory == IsFlaky \/ IsFlakyWithUnrecognized

SpecHistory == InitHistory /\ [][NextHistory]_vars

\* The claims' own reading of a history: the positions whose token is non-empty
\* after trimming, and those that are "fail" / "pass" after trimming and lower-casing.
NonEmptyAt(h) == {i \in 1..Len(h) : strip(h[i]) # <<>>}
FailAt(h) == {i \in 1..Len(h) : lower(strip(h[i])) = FAIL}
PassAt(h) == {i \in 1..Len(h) : lower(strip(h[i])) = PASS}
MixedHistory(h) == FailAt(h) # {} /\ PassAt(h) # {}
\* 0.1 <= fails/max(n,1) <= 0.9, in integers
InBand(h) ==
    LET d == Max(Cardinality(NonEmptyAt(h)), 1)
        f == Cardinality(FailAt(h))
    IN  d <= 10 * f /\ 10 * f <= 9 * d

\* C8: the label is Flaky iff the history is mixed with 0.1 <= rate <= 0.9; otherwise
\* Regressing iff rate > 0 and not mixed; otherwise Stable.
C8_LabelRule ==
    res # NoRes =>
        LET flaky == MixedHistory(hist) /\ InBand(hist)
            regressing == ~flaky /\ FailAt(hist) # {} /\ ~MixedHistory(hist)
        IN  /\ (res.label = "Flaky") <=> flaky
            /\ (res.label = "Regressing") <=> regressing
            /\ (res.label = "Stable") <=> (~flaky /\ ~regressing)
            /\ (FailAt(hist) # {} /\ PassAt(hist) = {}) => res.label = "Regressing"
            /\ (MixedHistory(hist) /\ ~InBand(hist)) => res.label = "Stable"

\* A mixed history whose rate is outside the band was classified (Stable).
C8_Witness ==
    /\ res # NoRes
    /\ MixedHistory(hist)
    /\ ~InBand(hist)
    /\ res.label = "Stable"

\* C9 (as claimed): adding unrecognized tokens to a history changes neither runs,
\* failures nor the label.
C9_UnrecognizedDiscarded ==
    base # NoRes =>
        /\ res.runs = base.res.runs
        /\ res.failures = base.res.failures
        /\ res.label = base.res.label

\* C10: runs is the number of tokens that are non-empty after trimming, failures the
\* number of those equal to "fail" after lower-casing, and failures <= runs.
C10_RunsAndFailures ==
    res # NoRes =>
        /\ res.runs = Cardinality(NonEmptyAt(hist))
        /\ res.failures = Cardinality(FailAt(hist) \cap NonEmptyAt(hist))
        /\ res.failures <= res.runs

\* A history with a blank token, an unrecognized token and a fail written in
\* another case was classified.
C10_Witness ==
    /\ res # NoRes
    /\ \E i \in 1..Len(hist) : strip(hist[i]) = <<>>
    /\ \E i \in 1..Len(hist) : strip(hist[i]) # <<>> /\ lower(strip(hist[i])) \notin {PASS, FAIL}
    /\ \E i \in 1..Len(hist) : hist[i] # FAIL /\ lower(strip(hist[i])) = FAIL
    /\ res.failures = 1
    /\ res.runs = 2

\* C11: the classifier answers every history (the empty one and those of blank tokens
\* included) with a result whose label is Stable, Flaky or Regressing and whose flaky
\* flag is true iff the label is Flaky; a history without non-blank tokens gives
\* Stable, failures 0, runs 0, flaky false.
C11_ClassifierTotal ==
    res # NoRes =>
        /\ DOMAIN res = {"flaky", "failures", "runs", "label"}
        /\ res.label \in {"Stable", "Flaky", "Regressing"}
        /\ res.flaky <=> (res.label = "Flaky")
        /\ (hist = <<>> \/ NonEmptyAt(hist) = {}) =>
              res = [label |-> "Stable", failures |-> 0, runs |-> 0, flaky |-> FALSE]

\* A history made only of blank tokens was classified.
C11_Witness ==
    /\ res # NoRes
    /\ hist # <<>>
    /\ NonEmptyAt(hist) = {}
    /\ res.label = "Stable"
    /\ ~res.flaky

(***************************************************************************)
(* The aggregate classifier on bounded inputs: one classify_aggregate      *)
(* request answered by handle, for every request and every answer of the   *)
(* providers below.                                                        *)
(***************************************************************************)

\* No history, an empty one, a flaky one, an all-fail one, an all-pass one, and a
\* mixed one whose rate is below the band.
AggHistories ==
    { None, Some(<<>>), Some(<<PASS, FAIL, PASS, FAIL>>), Some(<<FAIL, FAIL>>),
      Some(<<PASS, PASS>>), Some(Rep(PASS, MaxRep) \o <<FAIL>>) }

AggRequests ==
    { Request("2.0", Some(1), "classify_aggregate",
              Params(TRUE, [test_name |-> "t", repo |-> r, run_id |-> i, history |-> h,
                            max_log_snippets |-> 20])) :
        r \in {None, Some(""), Some("o/r")}, i \in {None, Some(7)}, h \in AggHistories }

\* list_runs answers a successes followed by b failures, or fails.
AggRuns ==
    { [ok |-> TRUE, runs |-> Rep("success", a) \o Rep("failure", b)] : a, b \in 0..MaxRep }
    \cup {Down}

\* fetch_run_logs_zip answers an archive without failing lines, with one infra line
\* among others, with two infra lines, with a failing line that is not infra, or fails.
AggZips ==
    { [ok |-> TRUE, files |-> << <<"step ok">> >>],
      OkZip,
      [ok |-> TRUE, files |-> << <<"  ERROR: Connection reset by peer">>,
                                 <<"step ok", "Error: HTTP 503 from registry  ">> >>],
      [ok |-> TRUE, files |-> << <<"FAILED test_a - AssertionError">> >>],
      Down }

AggEnvs ==
    [io1 : BOOLEAN, io2 : {TRUE}, runs : AggRuns, zip : AggZips, pr : {OkPr}, jira : {OkJira}]

\* Lines 359-365 for one classify_aggregate request.
ClassifyAggregate ==
    /\ last.kind = "none"
    /\ \E l \in AggRequests : \E e \in AggEnvs :
         Answered(l, e, handle(l, e, audit, clock))
    /\ nread' = nread + 1
    /\ nout' = nout + 1
    /\ UNCHANGED <<writerVars, historyVars, tamperVars, callVars>>

NextAggregate == ClassifyAggregate

SpecAggregate == InitServer /\ [][NextAggregate]_vars

(***************************************************************************)
(* Properties of the aggregate classifier.                                 *)
(***************************************************************************)
\* The request just answered was given a classification.
Classified == last.kind = "line" /\ last.resp.kind = "result"

\* The history label as the claims read it: Unknown without a history (or with an
\* empty one), otherwise the label of the history classifier's rule.
ClaimedBaseLabel(history) ==
    IF ~history.some \/ history.v = <<>> THEN "Unknown"
    ELSE IF MixedHistory(history.v) /\ InBand(history.v) THEN "Flaky"
    ELSE IF FailAt(history.v) # {} /\ ~MixedHistory(history.v) THEN "Regressing"
    ELSE "Stable"

\* C12: the score vector of a classification is flake = 0.6 for a Flaky history plus
\* 0.2 for pass_rate >= 90; regression = 0.5 for a Regressing history plus 0.2 for
\* pass_rate <= 50 with runs_total >= 10; infra = 0.6 when some snippet holds an infra
\* indicator (once, however many match), else 0; nothing else, and no score negative.
\* Scores are in tenths, pass_rate in hundredths of a percent.
C12_ScoreVector ==
    Classified =>
        LET r == last.resp.result
            lbl == ClaimedBaseLabel(last.line.params.fields.history)
        IN  /\ r.score.flake = (IF lbl = "Flaky" THEN 6 ELSE 0)
                                + (IF r.evidence.pass_rate >= 9000 THEN 2 ELSE 0)
            /\ r.score.regression =
                    (IF lbl = "Regressing" THEN 5 ELSE 0)
                    + (IF r.evidence.pass_rate <= 5000 /\ r.evidence.runs_total >= 10
                       THEN 2 ELSE 0)
            /\ r.score.infra =
                    (IF \E i \in 1..Len(r.evidence.log_snippets) :
                           HasInfraPattern(r.evidence.log_snippets[i])
                     THEN 6 ELSE 0)
            /\ DOMAIN r.score = {"flake", "regression", "infra"}
            /\ r.score.flake >= 0 /\ r.score.regression >= 0 /\ r.score.infra >= 0

\* An all-fail history, at most half of ten or more runs passed, and two snippets
\* with an infra indicator: regression 0.7, infra 0.6, flake 0.
C12_Witness ==
    /\ Classified
    /\ last.resp.result.score = [flake |-> 0, regression |-> 7, infra |-> 6]
    /\ last.resp.result.evidence.runs_total >= 10
    /\ Cardinality({i \in 1..Len(last.resp.result.evidence.log_snippets) :
                       HasInfraPattern(last.resp.result.evidence.log_snippets[i])}) = 2

\* C13: the label is that of the category with the largest score, flake before
\* regression before infra on ties: Flaky for flake, Regression for regression, Infra
\* for infra; flaky is true iff flake wins; Infra is returned whenever the infra score
\* is strictly above both others.
C13_LabelOfMaxScore ==
    Classified =>
        LET r == last.resp.result
            sc == last.resp.result.score
            winner == IF sc.flake >= sc.regression /\ sc.flake >= sc.infra THEN "flake"
                      ELSE IF sc.regression >= sc.infra THEN "regression"
                      ELSE "infra"
        IN  /\ r.label = (CASE winner = "flake" -> "Flaky"
                             [] winner = "regression" -> "Regression"
                             [] winner = "infra" -> "Infra")
            /\ r.flaky <=> (winner = "flake")
            /\ (sc.infra > sc.flake /\ sc.infra > sc.regression) => r.label = "Infra"

\* flake and infra tie at 0.6 and the label is Flaky.
C13_Witness ==
    /\ Classified
    /\ last.resp.result.score.flake = 6
    /\ last.resp.result.score.infra = 6
    /\ last.resp.result.label = "Flaky"
    /\ last.resp.result.flaky

\* C14 (as claimed): a classification reports flaky (label Flaky) only when a flake
\* signal fired, that is with score.flake > 0.
C14_FlakyOnlyWithFlakeSignal ==
    Classified =>
        ((last.resp.result.flaky \/ last.resp.result.label = "Flaky")
            => last.resp.result.score.flake > 0)

\* Every provider fails; the log can be written.
ProvidersDown ==
    [io1 |-> TRUE, io2 |-> TRUE, runs |-> Down, zip |-> Down, pr |-> Down, jira |-> Down]

\* C15: without a repository the call consults no provider (it is answered whatever
\* the providers would have said, also when they are down), reports pass_rate 0,
\* runs_total 0 and no snippets, and scores from the history alone.
C15_NoRepoNoProviderSignal ==
    (last.kind = "line" /\ ~TruthyStr(last.line.params.fields.repo) /\ last.env.io1) =>
        /\ Classified
        /\ last.resp.result.evidence = [pass_rate |-> 0, runs_total |-> 0, log_snippets |-> <<>>]
        /\ last.resp.result.score.flake \in {0, 6}
        /\ last.resp.result.score.regression \in {0, 5}
        /\ last.resp.result.score.infra = 0
        /\ last.resp = handle(last.line, ProvidersDown, NoFile, 0).resp

\* No repo but a run id, both providers down, an all-fail history: classified with
\* regression 0.5 from the history alone.
C15_Witness ==
    /\ Classified
    /\ ~TruthyStr(last.line.params.fields.repo)
    /\ TruthyInt(last.line.params.fields.run_id)
    /\ ~last.env.runs.ok
    /\ ~last.env.zip.ok
    /\ last.resp.result.score = [flake |-> 0, regression |-> 5, infra |-> 0]

(***************************************************************************)
(* The log as a record that only grows.                                    *)
(***************************************************************************)
IsPrefix(a, b) == Len(a) <= Len(b) /\ SubSeq(b, 1, Len(a)) = a

\* The audit_write calls made for the last line that could write: the tool's own
\* call (first write, io1) and the call of handle's except branch (io2).
SucceededWrites ==
    IF last.kind # "line" THEN 0
    ELSE (IF last.trace.audits - (IF last.trace.raised THEN 1 ELSE 0) = 1 /\ last.env.io1
          THEN 1 ELSE 0)
         + (IF last.trace.raised /\ last.env.io2 THEN 1 ELSE 0)

\* C16: every step of the server leaves the entries already in the log where they
\* were and as they were, and adds at the end exactly one entry per audit_write call
\* that succeeded; the file is never removed.
C16_AppendOnly ==
    [][/\ IsPrefix(audit.lines, audit'.lines)
       /\ audit.exists => audit'.exists
       /\ Len(audit'.lines) - Len(audit.lines) = SucceededWrites']_vars

\* A request added two entries (the tool's and the exception's) after an earlier
\* request's entry, which is still the first line.
C16_Witness ==
    /\ last.kind = "line"
    /\ last.before >= 1
    /\ Appended = 2
    /\ Entries(audit)[1].prev = ZeroHash
    /\ LastEntry.event = "exception"

(***************************************************************************)
(* Tamper evidence.  The log is written by sequential audit_write calls;   *)
(* then somebody outside the server changes the file once, and a verifier  *)
(* reads it: ChainOK is the verifier's forward check.                      *)
(***************************************************************************)

\* One audit_write call (lines 32-46), made on its own.
WriteSequential ==
    /\ tamper = NoTamper
    /\ clock < MaxChain
    /\ \E c \in WriterCalls, io \in BOOLEAN :
         audit' = audit_write(audit, clock, c.event, c.payload, c.result, c.ok, c.t_ms, io).file
    /\ clock' = clock + 1
    /\ UNCHANGED <<serverVars, writerVars, historyVars, tamperVars, callVars>>

\* The file is replaced by lines; what was done and the log before are noted.
Tampered(kind, lines) ==
    /\ audit' = [exists |-> TRUE, lines |-> lines]
    /\ tamper' = [kind |-> kind, orig |-> audit.lines]
    /\ UNCHANGED <<clock, serverVars, writerVars, historyVars, callVars>>

\* The last k entries are cut off.
DropTail ==
    /\ tamper = NoTamper
    /\ \E k \in 1..Len(audit.lines) :
         Tampered("drop_tail", SubSeq(audit.lines, 1, Len(audit.lines) - k))

\* The first k entries are cut off, some entry remaining.
DropHead ==
    /\ tamper = NoTamper
    /\ \E k \in 1..(Len(audit.lines) - 1) :
         Tampered("drop_head", SubSeq(audit.lines, k + 1, Len(audit.lines)))

\* An entry that is neither the first nor the last is removed.
DropInner ==
    /\ tamper = NoTamper
    /\ \E i \in 2..(Len(audit.lines) - 1) :
         Tampered("drop_inner", SubSeq(audit.lines, 1, i - 1)
                                \o SubSeq(audit.lines, i + 1, Len(audit.lines)))

\* Two entries change places.
Reorder ==
    /\ tamper = NoTamper
    /\ \E i, j \in 1..Len(audit.lines) :
         /\ i < j
         /\ Tampered("reorder", [audit.lines EXCEPT ![i] = audit.lines[j], ![j] = audit.lines[i]])

\* The result recorded in entry i is replaced, its stored hash left as it was.
ModifyEntry ==
    /\ tamper = NoTamper
    /\ \E i \in 1..Len(audit.lines) :
         Tampered("modify",
                  [audit.lines EXCEPT ![i] =
                      json_dumps([audit.lines[i].obj EXCEPT !.result = [forged |-> TRUE]])])

\* The result recorded in entry i is replaced and the entry's own hash recomputed;
\* the kind says whether i was the last entry.
ResealEntry ==
    /\ tamper = NoTamper
    /\ \E i \in 1..Len(audit.lines) :
         Tampered(IF i = Len(audit.lines) THEN "reseal_last" ELSE "reseal_earlier",
                  [audit.lines EXCEPT ![i] =
                      json_dumps([audit.lines[i].obj EXCEPT
                                     !.result = [forged |-> TRUE],
                                     !.hash = sha256([StripHash(audit.lines[i].obj)
                                                         EXCEPT !.result = [forged |-> TRUE]])])])

NextTamper ==
    WriteSequential \/ DropTail \/ DropHead \/ DropInner \/ Reorder \/ ModifyEntry \/ ResealEntry

SpecTamper == InitServer /\ [][NextTamper]_vars

\* C17 (as claimed): whatever was done to a sequentially written log -- truncation
\* (from the tail too), reordering, modification of an entry -- the verifier's
\* forward check fails.
C17_AnyTamperingDetected ==
    tamper # NoTamper => ~ChainOK(audit)

\* C17 (amended): the forward check fails after entries were cut off the head or
\* removed from inside, after a reordering, and after a modification that left the
\* stored hash alone or recomputed only the hash of an entry that is not the last;
\* it passes after a truncation of the tail and after the last entry was rewritten
\* with its hash recomputed.
C17_TamperingDetectedExceptAtTail ==
    /\ tamper.kind \in {"drop_head", "drop_inner", "reorder", "modify", "reseal_earlier"}
          => ~ChainOK(audit)
    /\ tamper.kind \in {"drop_tail", "reseal_last"} => ChainOK(audit)
    /\ tamper = NoTamper => ChainOK(audit)

\* An entry was removed from inside a log of three entries and the check fails.
C17_Witness ==
    /\ tamper.kind = "drop_inner"
    /\ Len(tamper.orig) = 3
    /\ Len(audit.lines) = 2
    /\ ~ChainOK(audit)

(***************************************************************************)
(* Error codes of the request loop (specification Spec).                   *)
(***************************************************************************)

\* C18 (as claimed), for calls during which the log file can be written: a request
\* whose params do not fit the tool's schema is answered with a client error, not
\* with the internal error -32603.
C18_ValidationIsClientError ==
    (ToolCall /\ ~last.line.params.valid /\ last.env.io2) =>
        /\ last.resp.kind = "error"
        /\ last.resp.code # -32603

\* C19 (as claimed): a line that is JSON but no request object, or whose jsonrpc is
\* not "2.0", is answered with -32600, before the method is looked at; -32700 is
\* answered only to a line that is not JSON.
C19_MalformedEnvelopeIsInvalidRequest ==
    (last.kind = "line" /\ last.line.kind # "blank") =>
        /\ last.line.kind = "nonobject" => last.resp.code = -32600
        /\ (last.line.kind = "object" /\ last.line.jsonrpc # "2.0") =>
              /\ last.resp.kind = "error"
              /\ last.resp.code = -32600
        /\ (last.resp.kind = "error" /\ last.resp.code = -32700 /\ last.env.io1 /\ last.env.io2)
              => last.line.kind = "garbage"

\* The last line was a request with jsonrpc "2.0" whose method is not registered.
UnknownMethod ==
    /\ last.kind = "line"
    /\ last.line.kind = "object"
    /\ last.line.jsonrpc = "2.0"
    /\ last.line.method \notin
          {"mcp.list_tools", "is_flaky", "suggest_fix", "get_actions_metrics",
           "get_ci_log_snippets", "open_pr", "create_jira", "classify_aggregate"}

\* C20: a request with a valid envelope and an unregistered method is answered with
\* error -32601 under its own id; no tool runs and the audit log is unchanged.
C20_UnknownMethod ==
    UnknownMethod =>
        /\ last.resp.kind = "error"
        /\ last.resp.code = -32601
        /\ last.resp.id = last.line.id
        /\ ~last.trace.tool
        /\ last.trace.audits = 0
        /\ Appended = 0

\* An unregistered method was answered while the log already held an entry.
C20_Witness ==
    /\ UnknownMethod
    /\ last.before >= 1
    /\ Len(audit.lines) = last.before
    /\ last.resp.code = -32601

(***************************************************************************)
(* The request loop's answers (specification Spec).                        *)
(***************************************************************************)

\* C21 (as claimed): every non-blank line read is answered with one response before
\* the next line is read, whatever failed while it was handled, and the response to a
\* line that parsed as a JSON object carries that request's id with either a result
\* or an error object.
C21_EveryLineAnsweredUnderItsId ==
    /\ nout <= nread
    /\ (last.kind = "line" /\ last.line.kind # "blank") =>
          /\ nout >= 1
          /\ last.resp.kind \in {"result", "error"}
          /\ last.line.kind = "object" => last.resp.id = last.line.id

(***************************************************************************)
(* The fix suggester on bounded inputs: one suggest_fix call with hist.    *)
(***************************************************************************)
SuggestFix ==
    /\ ret = NoRet
    /\ ret' = tool_suggest_fix([test_name |-> "t", history |-> hist])
    /\ UNCHANGED <<arg, audit, clock, serverVars, writerVars, historyVars, tamperVars>>

NextSuggest == SuggestFix

SpecSuggest == InitHistory /\ [][NextSuggest]_vars

\* The strings of a returned list.
Hints(s) == {s[i] : i \in 1..Len(s)}

\* C22: for every history the list suggest_fix returns is in ascending order, holds
\* no string twice, and contains the two baseline hints (mock external dependencies;
\* test-order independence).
C22_SortedDedupedWithBaseline ==
    ret # NoRet =>
        /\ \A i, j \in 1..Len(ret.suggestions) :
              i < j => /\ Ord(ret.suggestions[i]) < Ord(ret.suggestions[j])
                       /\ ret.suggestions[i] # ret.suggestions[j]
        /\ {HintMock, HintOrder} \subseteq Hints(ret.suggestions)

\* The four hints were returned for a history that is mixed only after trimming and
\* lower-casing.
C22_Witness ==
    /\ ret # NoRet
    /\ Len(ret.suggestions) = 4
    /\ ~Contains(hist, PASS)
    /\ ret.suggestions[1] = HintOrder
    /\ ret.suggestions[4] = HintSeed

\* C23: suggest_fix returns exactly four hints when the normalized history holds both
\* "pass" and "fail", and exactly the two baseline hints otherwise.
C23_FourHintsIffMixed ==
    ret # NoRet =>
        IF MixedHistory(hist)
        THEN /\ Len(ret.suggestions) = 4
             /\ Hints(ret.suggestions) = {HintSeed, HintFreeze, HintMock, HintOrder}
        ELSE /\ Len(ret.suggestions) = 2
             /\ Hints(ret.suggestions) = {HintMock, HintOrder}

\* A history of failures only (with an unrecognized token) got the two baseline
\* hints.
C23_Witness ==
    /\ ret # NoRet
    /\ FailAt(hist) # {}
    /\ PassAt(hist) = {}
    /\ Len(hist) > Cardinality(FailAt(hist))
    /\ Len(ret.suggestions) = 2

(***************************************************************************)
(* Snippet extraction on bounded inputs: one extract_failure_snippets call *)
(* on an archive of up to MaxLogFiles files, with both caps from 0 up.     *)
(***************************************************************************)
LogFiles ==
    { <<>>,
      <<"step ok">>,
      <<"  ERROR: Connection reset by peer">>,
      <<"step ok", "FAILED test_a - AssertionError", "FAILED test_a - AssertionError">>,
      <<"FAILED test_a - AssertionError", "request timeout, retrying",
        "Error: HTTP 503 from registry  ">> }

Archives == SeqsUpTo(LogFiles, MaxLogFiles)

InitSnippets ==
    /\ arg \in [kind : {"snippets"}, files : Archives,
                max_files : 0..MaxCap, max_snippets : 0..MaxCap]
    /\ ret = NoRet
    /\ audit = NoFile
    /\ clock = 0
    /\ WritersIdle
    /\ ServerIdle
    /\ HistoryIdle
    /\ TamperIdle

ExtractSnippets ==
    /\ ret = NoRet
    /\ ret' = [snippets |-> extract_failure_snippets(arg.files, arg.max_files, arg.max_snippets)]
    /\ UNCHANGED <<arg, audit, clock, serverVars, writerVars, historyVars, tamperVars>>

NextSnippets == ExtractSnippets

SpecSnippets == InitSnippets /\ [][NextSnippets]_vars

\* The claim's own reading: the matching lines of the first n files, trimmed, in
\* file-then-line order, repeats kept.
RECURSIVE MatchingLines(_, _)
MatchingLines(files, n) ==
    IF files = <<>> \/ n <= 0 THEN <<>>
    ELSE LET f == SelectSeq(Head(files), FailPatSearch)
         IN  [i \in 1..Len(f) |-> StripLine(f[i])] \o MatchingLines(Tail(files), n - 1)

\* C24 (as claimed): for max_files >= 0 and max_snippets >= 0 the result holds at most
\* max_snippets lines: the first max_snippets matching lines of the first max_files
\* files, in file-then-line order and with repeats kept.
C24_SnippetsWithinCap ==
    ret # NoRet =>
        /\ Len(ret.snippets) <= arg.max_snippets
        /\ ret.snippets = Take(MatchingLines(arg.files, arg.max_files), arg.max_snippets)

(***************************************************************************)
(* The run summary on bounded inputs: one summarize call on a list of runs *)
(* given by their conclusions ("None" is a run without conclusion).        *)
(***************************************************************************)
Conclusions == {"success", "Success", "failure", "cancelled", "timed_out", "skipped", "None"}

RunLists ==
    SeqsUpTo(Conclusions, MaxRuns)
    \cup {Rep("success", a) \o Rep("failure", b) : a \in 0..3, b \in 0..(MaxRunRep - 1)}

InitSummarize ==
    /\ arg \in [kind : {"runs"}, runs : RunLists]
    /\ ret = NoRet
    /\ audit = NoFile
    /\ clock = 0
    /\ WritersIdle
    /\ ServerIdle
    /\ HistoryIdle
    /\ TamperIdle

Summarize ==
    /\ ret = NoRet
    /\ ret' = summarize(arg.runs)
    /\ UNCHANGED <<arg, audit, clock, serverVars, writerVars, historyVars, tamperVars>>

NextSummarize == Summarize

SpecSummarize == InitSummarize /\ [][NextSummarize]_vars

\* The runs whose conclusion is "success" in any case.
Succeeded(runs) == {i \in 1..Len(runs) : runs[i] \in {"success", "Success"}}

\* C25: summarize returns total = number of runs, passed and failed with
\* passed + failed <= total, and pass_rate = 100 * passed / total rounded to two
\* decimals (0.0 for no runs), so that 0 <= pass_rate <= 100.  In hundredths: the
\* rate is an integer within half a unit of 10000 * passed / total.
C25_SummaryAndPassRate ==
    ret # NoRet =>
        /\ ret.total = Len(arg.runs)
        /\ ret.passed = Cardinality(Succeeded(arg.runs))
        /\ ret.failed >= 0
        /\ ret.passed + ret.failed <= ret.total
        /\ ret.total = 0 => ret.pass_rate = 0
        /\ ret.total > 0 =>
              /\ 2 * (ret.pass_rate * ret.total - 10000 * ret.passed) <= ret.total
              /\ 2 * (10000 * ret.passed - ret.pass_rate * ret.total) <= ret.total
        /\ ret.pass_rate >= 0
        /\ ret.pass_rate <= 10000

\* Two of three runs passed, one of them reported as "Success": 66.67.
C25_Witness ==
    /\ ret # NoRet
    /\ ret.total = 3
    /\ ret.passed = 2
    /\ \E i \in 1..3 : arg.runs[i] = "Success"
    /\ ret.pass_rate = 6667

(***************************************************************************)
(* Reordered histories: the classifier, the fix suggester and the          *)
(* aggregate classifier are called with hist, then with a reordering of    *)
(* it, the providers' answers (arg) staying the same.                      *)
(***************************************************************************)

\* What the providers answered to classify_aggregate: no repository given; a
\* repository with passing and failing runs; one with failing runs only and an infra
\* line in the log.
Contexts ==
    { [kind |-> "context", hasRepo |-> FALSE, m |-> summarize(<<>>), snips |-> <<>>],
      [kind |-> "context", hasRepo |-> TRUE, m |-> summarize(OkRuns.runs), snips |-> <<>>],
      [kind |-> "context", hasRepo |-> TRUE, m |-> summarize(Rep("failure", MaxRep)),
       snips |-> <<"ERROR: Connection reset by peer">>] }

ScoreAndLabel(r) == [score |-> r.score, label |-> r.label, flaky |-> r.flaky]

\* The three tools' outputs for history h under the provider answers c.
Outputs(h, c) ==
    [is_flaky |-> tool_is_flaky([test_name |-> "t", history |-> h]),
     suggest_fix |-> tool_suggest_fix([test_name |-> "t", history |-> h]),
     classify_aggregate |->
         ScoreAndLabel(Aggregate([test_name |-> "t", history |-> Some(h)],
                                 c.hasRepo, c.m, c.snips))]

InitPermute ==
    /\ hist \in Histories
    /\ arg \in Contexts
    /\ ret = NoRet
    /\ res = NoRes
    /\ base = NoRes
    /\ audit = NoFile
    /\ clock = 0
    /\ WritersIdle
    /\ ServerIdle
    /\ TamperIdle

\* The three tools are called with hist.
CallAll ==
    /\ ret = NoRet
    /\ ret' = Outputs(hist, arg)
    /\ UNCHANGED <<arg, audit, clock, serverVars, writerVars, historyVars, tamperVars>>

\* They are called again with the history reordered as h.
CalledWith(h) ==
    /\ ret # NoRet
    /\ base = NoRes
    /\ h # hist
    /\ hist' = h
    /\ base' = [hist |-> hist, res |-> ret]
    /\ ret' = Outputs(h, arg)
    /\ UNCHANGED <<res, arg, audit, clock, serverVars, writerVars, tamperVars>>

\* Any reordering of a short history.
Permute ==
    /\ Len(hist) <= MaxRawLen
    /\ \E p \in Permutations(1..Len(hist)) : CalledWith([i \in 1..Len(hist) |-> hist[p[i]]])

\* Two outcomes of a history of any length change places.
Transpose ==
    \E i, j \in 1..Len(hist) :
        /\ i < j
        /\ CalledWith([hist EXCEPT ![i] = hist[j], ![j] = hist[i]])

NextPermute == CallAll \/ Permute \/ Transpose

SpecPermute == InitPermute /\ [][NextPermute]_vars

\* C26: the outputs of the history classifier, of the fix suggester and the score and
\* label of classify_aggregate are the same for a history and for any reordering of it.
C26_OrderIrrelevant ==
    base # NoRes => ret = base.res

\* A flaky history was reordered so that its first outcome changed, and classified
\* again under a repository's metrics.
C26_Witness ==
    /\ base # NoRes
    /\ hist # base.hist
    /\ Len(hist) >= 3
    /\ lower(strip(hist[1])) # lower(strip(base.hist[1]))
    /\ arg.hasRepo
    /\ ret.is_flaky.label = "Flaky"
    /\ Len(ret.suggest_fix.suggestions) = 4
    /\ ret.classify_aggregate.score.flake >= 6

(***************************************************************************)
(* Independence of earlier requests (specification Spec).                  *)
(***************************************************************************)

\* The last line was a request for one of the three classification tools.
ClassificationCall ==
    /\ last.kind = "line"
    /\ last.line.kind = "object"
    /\ last.line.jsonrpc = "2.0"
    /\ last.line.method \in {"is_flaky", "suggest_fix", "classify_aggregate"}

\* C27: the response of is_flaky, suggest_fix and classify_aggregate is determined by
\* the request and by what the outside world answered during that call: whatever
\* requests came before (whatever the audit log holds and whenever the call is made),
\* it is the response the same call gets in a fresh process with no log.
C27_ResultIndependentOfHistory ==
    ClassificationCall =>
        last.resp = handle(last.line, last.env, NoFile, 0).resp

\* A classify_aggregate request was answered with a classification as the second
\* request, the log already holding an entry.
C27_Witness ==
    /\ ClassificationCall
    /\ last.line.method = "classify_aggregate"
    /\ nread = 2
    /\ last.before >= 1
    /\ last.resp.kind = "result"
    /\ Appended = 1

(***************************************************************************)
(* The justification list (specification SpecAggregate).                   *)
(***************************************************************************)

\* The list as the claim reads it off the request f and the response r.
ClaimedReasons(f, r) ==
    (IF f.repo.some /\ f.repo.v # ""
     THEN <<[kind |-> "metrics", pass_rate |-> r.evidence.pass_rate,
             runs_total |-> r.evidence.runs_total]>>
     ELSE <<>>)
    \o (IF r.evidence.log_snippets # <<>>
        THEN <<[kind |-> "collected", count |-> Len(r.evidence.log_snippets)]>>
        ELSE <<>>)
    \o (IF ClaimedBaseLabel(f.history) = "Flaky" THEN <<[kind |-> "history_flake"]>>
        ELSE IF ClaimedBaseLabel(f.history) = "Regressing" THEN <<[kind |-> "history_regression"]>>
        ELSE <<>>)
    \o (IF r.score.infra > 0 THEN <<[kind |-> "infra"]>> ELSE <<>>)

\* C28: the justification list of a classification holds, in this order and each
\* exactly under its condition: the metrics line (a repository is given), the count of
\* collected log lines (snippets were fetched and there are some), the history line
\* (the history label is Flaky or Regressing), the infra line (the infra score was
\* raised); the metrics thresholds add to the score without a line.
C28_ReasonsInOrder ==
    Classified =>
        last.resp.result.reasons = ClaimedReasons(last.line.params.fields, last.resp.result)

\* All four lines were given, and the metrics threshold for flake was met as well.
C28_Witness ==
    /\ Classified
    /\ Len(last.resp.result.reasons) = 4
    /\ last.resp.result.reasons[3].kind = "history_flake"
    /\ last.resp.result.evidence.pass_rate >= 9000
    /\ last.resp.result.score.flake = 8

(***************************************************************************)
(* audit_write on a log file found in any condition: absent, or holding up *)
(* to MaxFileLines lines that are blank, not JSON, JSON but no object, an  *)
(* entry with a hash, or an entry without one.                             *)
(***************************************************************************)
FoundLines ==
    { [kind |-> "blank"], [kind |-> "garbage"], [kind |-> "nonobject"],
      json_dumps(SealEntry(EntryFields(0, "open_pr", [repo |-> "o/r"], [pr |-> 1], TRUE, 1, ZeroHash))),
      json_dumps(SealEntry(EntryFields(0, "exception", [method |-> "is_flaky"],
                                       [error |-> "ValidationError"], FALSE, 0, ZeroHash))),
      json_dumps([event |-> "note"]) }

FoundFiles == {NoFile} \cup {[exists |-> TRUE, lines |-> l] : l \in SeqsUpTo(FoundLines, MaxFileLines)}

InitLastHash ==
    /\ audit \in FoundFiles
    /\ arg \in [kind : {"write"}, io : BOOLEAN]
    /\ ret = NoRet
    /\ clock = 1
    /\ WritersIdle
    /\ ServerIdle
    /\ HistoryIdle
    /\ TamperIdle

\* The state after audit_write has returned w, or raised.
Written(w) ==
    /\ audit' = w.file
    /\ ret' = [raised |-> w.raised, before |-> audit]

\* One audit_write call.
AuditWrite ==
    /\ ret = NoRet
    /\ Written(audit_write(audit, clock, "get_actions_metrics", [repo |-> "o/r"],
                           [total |-> 0], TRUE, 1, arg.io))
    /\ clock' = clock + 1
    /\ UNCHANGED <<arg, serverVars, writerVars, historyVars, tamperVars>>

NextLastHash == AuditWrite

SpecLastHash == InitLastHash /\ [][NextLastHash]_vars

\* The claim's reading of a file: the position of its last non-blank line, 0 when it
\* has none.
RECURSIVE LastNonBlankLine(_)
LastNonBlankLine(lines) ==
    IF lines = <<>> THEN 0
    ELSE IF lines[Len(lines)].kind # "blank" THEN Len(lines)
    ELSE LastNonBlankLine(SubSeq(lines, 1, Len(lines) - 1))

\* The call appended exactly one entry, whose prev is p.
AppendedWithPrev(p) ==
    /\ ~ret.raised
    /\ audit.exists
    /\ Len(audit.lines) = Len(ret.before.lines) + 1
    /\ SubSeq(audit.lines, 1, Len(ret.before.lines)) = ret.before.lines
    /\ audit.lines[Len(audit.lines)].kind = "json"
    /\ audit.lines[Len(audit.lines)].obj.prev = p

\* C29: with the log file writable, audit_write's prev is the hash field of the last
\* non-blank line; it is 64 zeros when the file is absent, empty, holds only blank
\* lines, or its last entry has no hash field; when the last non-blank line is not
\* valid JSON the call raises and the log is left as it was.
C29_PrevFromLastNonBlankLine ==
    (ret # NoRet /\ arg.io) =>
        LET lines == ret.before.lines
            n == LastNonBlankLine(lines)
        IN  IF ~ret.before.exists \/ n = 0
            THEN /\ AppendedWithPrev(ZeroHash)
                 /\ Len(audit.lines[Len(audit.lines)].obj.prev) = 64
            ELSE IF lines[n].kind = "garbage"
            THEN ret.raised /\ audit = ret.before
            ELSE IF lines[n].kind = "json"
            THEN IF "hash" \in DOMAIN lines[n].obj
                 THEN AppendedWithPrev(lines[n].obj.hash)
                 ELSE AppendedWithPrev(ZeroHash)
            ELSE TRUE

\* The file ended with an entry followed by a blank line, after a line that is not
\* JSON: the new entry's prev is that entry's hash.
C29_Witness ==
    /\ ret # NoRet
    /\ arg.io
    /\ Len(ret.before.lines) = 3
    /\ ret.before.lines[1].kind = "garbage"
    /\ ret.before.lines[2].kind = "json"
    /\ "hash" \in DOMAIN ret.before.lines[2].obj
    /\ ret.before.lines[3].kind = "blank"
    /\ ~ret.raised
    /\ audit.lines[4].obj.prev = ret.before.lines[2].obj.hash
    /\ audit.lines[4].obj.prev # ZeroHash

(***************************************************************************)
(* Audit entries per request (specification Spec).                         *)
(***************************************************************************)

\* The positions of the entries appended while the last line was handled.
NewEntries == (last.before + 1)..Len(audit.lines)

\* C30 (as claimed): no request appends more than one audit entry; in particular none
\* leaves both an ok=true entry and an ok=false "exception" entry in the log.
C30_OneEntryPerRequest ==
    last.kind = "line" =>
        /\ Appended <= 1
        /\ ~\E i, j \in NewEntries :
               /\ Entries(audit)[i].ok
               /\ Entries(audit)[j].event = "exception"
               /\ ~Entries(audit)[j].ok

====
